---- MODULE Spec2Model ----
(***************************************************************************)
(* Model of src/app.py: the pure ranking function role_priority and the    *)
(* asynchronous pipeline() that resolves homepages, extracts emails and    *)
(* assembles the output table.                                             *)
(*                                                                         *)
(* Python strings are modelled as sequences of code points, so that        *)
(* str.lower, str.strip, str.startswith, string comparison and str.join    *)
(* are computed as Python computes them.                                   *)
(***************************************************************************)
EXTENDS Integers, Sequences, FiniteSets, TLC

(* ---------------------------- bounds ----------------------------------- *)
\* largest number of records the listing source returns
MaxRows == 2
\* largest value of the item-count slider (scaled down from 50..2000)
MaxLimit == 2
\* longest email list handed to role_priority
MaxLen == 3

(* ------------------------- Python values ------------------------------- *)
\* Python's None where a string is expected, and where a list is expected
None == <<-1>>
NoneList == << <<-1>> >>
\* markers of a collaborator call that raised (string-valued, list-valued)
SearchRaised == <<-2>>
Raised == << <<-2>> >>

\* useful string literals
EmptyStr == <<>>
Blank == <<32>>
UrlAPadded == <<32,97,46,107,114,32>>
UrlB == <<98,46,107,114>>
NoteText == <<110>>

info_a == <<105,110,102,111,64,97,46,107,114>>
Info_b == <<73,110,102,111,64,98,46,107,114>>
info_b == <<105,110,102,111,64,98,46,107,114>>
jane_a == <<106,97,110,101,64,97,46,107,114>>
help_a == <<104,101,108,112,64,97,46,107,114>>

Range(s) == {s[k] : k \in DOMAIN s}

\* truthiness of a string-valued Python value (None and "" are falsy)
Truthy(x) == x # None /\ x # <<>>

\* truthiness of a list-valued Python value (None and [] are falsy)
TruthyList(x) == x # NoneList /\ x # <<>>

\* x or d
PyOr(x, d) == IF Truthy(x) THEN x ELSE d

\* str.lower() on ASCII text
Lower(s) == [k \in DOMAIN s |-> IF s[k] >= 65 /\ s[k] <= 90 THEN s[k] + 32 ELSE s[k]]

\* s.startswith(p)
StartsWith(s, p) == Len(s) >= Len(p) /\ SubSeq(s, 1, Len(p)) = p

\* characters str.strip() removes
Whitespace == {9, 10, 11, 12, 13, 28, 29, 30, 31, 32}

RECURSIVE LStrip(_)
LStrip(s) == IF s # <<>> /\ Head(s) \in Whitespace THEN LStrip(Tail(s)) ELSE s

RECURSIVE RStrip(_)
RStrip(s) ==
  IF s # <<>> /\ s[Len(s)] \in Whitespace THEN RStrip(SubSeq(s, 1, Len(s) - 1)) ELSE s

\* str.strip()
Strip(s) == RStrip(LStrip(s))

\* a < b on Python strings: lexicographic by code point
RECURSIVE StrLess(_, _)
StrLess(a, b) ==
  IF b = <<>> THEN FALSE
  ELSE IF a = <<>> THEN TRUE
  ELSE IF Head(a) # Head(b) THEN Head(a) < Head(b)
  ELSE StrLess(Tail(a), Tail(b))

\* sep.join(items)
RECURSIVE Join(_, _)
Join(sep, items) ==
  IF items = <<>> THEN <<>>
  ELSE IF Len(items) = 1 THEN items[1]
  ELSE items[1] \o sep \o Join(sep, Tail(items))

\* list(dict.fromkeys(items)): drop later duplicates, keep insertion order
RECURSIVE DictFromKeys(_)
DictFromKeys(items) ==
  IF items = <<>> THEN <<>>
  ELSE LET front == DictFromKeys(SubSeq(items, 1, Len(items) - 1))
           last == items[Len(items)]
       IN IF last \in Range(front) THEN front ELSE Append(front, last)

(* --------------------------- role_priority ----------------------------- *)
\* the tuple `roles` of role_priority
roles == << <<105,110,102,111,64>>, <<99,111,110,116,97,99,116,64>>,
            <<115,97,108,101,115,64>>, <<97,100,109,105,110,64>>,
            <<115,117,112,112,111,114,116,64>>, <<104,101,108,112,64>> >>

\* the literal prefix list of the role-only filter in pipeline()
filter_roles == << <<105,110,102,111,64>>, <<99,111,110,116,97,99,116,64>>,
                   <<115,97,108,101,115,64>>, <<97,100,109,105,110,64>>,
                   <<115,117,112,112,111,114,116,64>> >>

\* e.lower().startswith(prefixes)
LowerStartsWithAny(e, prefixes) ==
  \E k \in DOMAIN prefixes : StartsWith(Lower(e), prefixes[k])

\* mutant of SortKey: tie-break on the lower-cased address
SortKeyLowered(e) == << IF LowerStartsWithAny(e, roles) THEN 0 ELSE 1, Lower(e) >>

\* key=lambda e: (not e.lower().startswith(roles), e); False is 0, True is 1
SortKey(e) == << IF LowerStartsWithAny(e, roles) THEN 0 ELSE 1, e >>

\* tuple comparison of two sort keys
KeyLess(k1, k2) == k1[1] < k2[1] \/ (k1[1] = k2[1] /\ StrLess(k1[2], k2[2]))

\* sorted(S, key=SortKey)
RECURSIVE Sorted(_)
Sorted(S) ==
  IF S = {} THEN <<>>
  ELSE LET m == CHOOSE x \in S : \A y \in S : ~KeyLess(SortKey(y), SortKey(x))
       IN <<m>> \o Sorted(S \ {m})

\* mutant of PySet: addresses are folded to lower case before de-duplication
PySetCaseFolded(emails) == {Lower(emails[k]) : k \in DOMAIN emails}

\* set(emails)
PySet(emails) == Range(emails)

role_priority(emails) ==
  IF ~TruthyList(emails) THEN <<>> ELSE Sorted(PySet(emails))

(* ------------------------------ pipeline ------------------------------- *)
\* crawl_site_for_emails(hp, max_pages=5)
MaxPages == 5

\* values a source record's homepage cell can hold
HomepageCells == {EmptyStr, Blank, UrlAPadded}
\* values a source record's notes cell can hold
NotesCells == {EmptyStr, NoteText}
\* answers of find_homepage_via_bing
SearchResults == {None, EmptyStr, UrlB}
\* answers of crawl_site_for_emails, or an exception
CrawlOutcomes == {<<>>, <<jane_a, info_a>>, <<help_a, jane_a>>,
                  <<Info_b, info_a, Info_b>>, Raised}
\* answers of extract_emails_from_text, or an exception
ExtractOutcomes == {<<>>, <<jane_a, info_a>>, Raised}
\* inputs of role_priority
EmailUniverse == {info_a, Info_b, info_b, jane_a, help_a}
RankInputs == {NoneList} \cup UNION {[1..n -> EmailUniverse] : n \in 0..MaxLen}

VARIABLES
  only_role,    \* sidebar checkbox
  limit,        \* sidebar slider
  rows,         \* records returned by the listing source
  df,           \* the data frame built from rows
  homepages,    \* list filled by the first loop
  emails_col,   \* list filled by the second loop
  out,          \* the table pipeline() returns
  pc,           \* position of pipeline(), or of the role_priority call
  search_log,   \* per record: outcomes of the find_homepage_via_bing calls
  crawl_log,    \* per processed record: collaborator calls and `emails` values
  rank_in,      \* argument of role_priority
  rank_out      \* value returned by role_priority

vars == <<only_role, limit, rows, df, homepages, emails_col, out, pc,
          search_log, crawl_log, rank_in, rank_out>>

Min(a, b) == IF a < b THEN a ELSE b

\* pd.DataFrame(rows) with the missing "이메일" column added as ""
MakeFrame(rs) ==
  [k \in DOMAIN rs |-> [homepage |-> rs[k].homepage, notes |-> rs[k].notes,
                        emails |-> EmptyStr]]

\* number of records df.head(limit) iterates over
HeadLen == Min(limit, Len(df))

\* hp = str(row.get("홈페이지","") or "").strip()
RowHomepage(row) == Strip(PyOr(row.homepage, EmptyStr))

\* mutant of NeedsSearch: the search is issued for every record
NeedsSearchAlways(hp) == TRUE

\* if not hp:
NeedsSearch(hp) == ~Truthy(hp)

\* text_blob = str(row.get("비고", "") or "")
TextBlob(row) == PyOr(row.notes, EmptyStr)

\* mutant of CrawlEmails: the crawler's exception is not caught
CrawlEmailsUncaught(hp, c) == IF Truthy(hp) THEN c ELSE <<>>

\* emails = []; if hp: try: emails = await crawl(...) except Exception: emails = []
\* (the value Raised would stand for an exception leaving the block)
CrawlEmails(hp, c) == IF Truthy(hp) THEN (IF c = Raised THEN <<>> ELSE c) ELSE <<>>

\* mutant of UseFallback: the notes are scanned whatever the crawl returned
UseFallbackAlways(emails, text_blob) == Truthy(text_blob)

\* if not emails and text_blob:
UseFallback(emails, text_blob) == ~TruthyList(emails) /\ Truthy(text_blob)

IsFilterRole(e) == LowerStartsWithAny(e, filter_roles)

\* mutant of RoleFilter: falls back to the unfiltered list when nothing is left
RoleFilterLenient(emails) ==
  IF SelectSeq(emails, IsFilterRole) = <<>> THEN emails
  ELSE SelectSeq(emails, IsFilterRole)

\* [e for e in emails if any(e.lower().startswith(x) for x in [...])]
RoleFilter(emails) == SelectSeq(emails, IsFilterRole)

\* ", ".join(dict.fromkeys(emails))
EmailCell(emails) == Join(<<44, 32>>, DictFromKeys(emails))

NoRank == /\ rank_in = NoneList
          /\ rank_out = NoneList

Init ==
  /\ only_role \in BOOLEAN
  /\ limit \in 1..MaxLimit
  /\ rows \in UNION {[1..n -> [homepage : HomepageCells, notes : NotesCells]] :
                       n \in 1..MaxRows}
  /\ df = MakeFrame(rows)
  /\ homepages = <<>>
  /\ emails_col = <<>>
  /\ out = <<>>
  /\ pc = "resolve"
  /\ search_log = [k \in DOMAIN rows |-> <<>>]
  /\ crawl_log = <<>>
  /\ NoRank

\* first loop, a record that already has a homepage
KeepHomepage ==
  /\ pc = "resolve"
  /\ Len(homepages) < HeadLen
  /\ LET hp == RowHomepage(df[Len(homepages) + 1])
     IN /\ ~NeedsSearch(hp)
        /\ homepages' = Append(homepages, PyOr(hp, EmptyStr))
  /\ UNCHANGED <<only_role, limit, rows, df, emails_col, out, pc, search_log,
                 crawl_log, rank_in, rank_out>>

\* first loop, find_homepage_via_bing returns
SearchHomepage ==
  /\ pc = "resolve"
  /\ Len(homepages) < HeadLen
  /\ LET k == Len(homepages) + 1
         hp == RowHomepage(df[k])
     IN /\ NeedsSearch(hp)
        /\ \E r \in SearchResults :
             /\ search_log' = [search_log EXCEPT ![k] = Append(@, r)]
             /\ homepages' = Append(homepages, PyOr(r, EmptyStr))
  /\ UNCHANGED <<only_role, limit, rows, df, emails_col, out, pc, crawl_log,
                 rank_in, rank_out>>

\* first loop, find_homepage_via_bing raises: nothing catches it
SearchRaises ==
  /\ pc = "resolve"
  /\ Len(homepages) < HeadLen
  /\ LET k == Len(homepages) + 1
         hp == RowHomepage(df[k])
     IN /\ NeedsSearch(hp)
        /\ search_log' = [search_log EXCEPT ![k] = Append(@, SearchRaised)]
  /\ pc' = "crashed"
  /\ UNCHANGED <<only_role, limit, rows, df, homepages, emails_col, out,
                 crawl_log, rank_in, rank_out>>

\* df.loc[:len(homepages)-1, "홈페이지"] = homepages
WriteHomepages ==
  /\ pc = "resolve"
  /\ Len(homepages) = HeadLen
  /\ df' = [k \in DOMAIN df |->
              IF k <= Len(homepages) THEN [df[k] EXCEPT !.homepage = homepages[k]]
              ELSE df[k]]
  /\ pc' = "extract"
  /\ UNCHANGED <<only_role, limit, rows, homepages, emails_col, out, search_log,
                 crawl_log, rank_in, rank_out>>

\* what one iteration of the second loop does with the collaborators' answers
\* c (crawl) and x (notes extraction)
LogEntry(row, c, x) ==
  LET hp == row.homepage
      crawled == Truthy(hp)
      e1 == CrawlEmails(hp, c)
      text_blob == TextBlob(row)
      fallback == e1 # Raised /\ UseFallback(e1, text_blob)
      e2 == IF fallback THEN x ELSE e1
      e3 == IF e2 = Raised THEN Raised
            ELSE IF only_role THEN RoleFilter(e2) ELSE e2
  IN [crawl_calls |-> IF crawled THEN 1 ELSE 0,
      max_pages |-> IF crawled THEN MaxPages ELSE 0,
      crawl_ret |-> IF crawled THEN c ELSE NoneList,
      extract_calls |-> IF fallback THEN 1 ELSE 0,
      extract_ret |-> IF fallback THEN x ELSE NoneList,
      found |-> e2,
      kept |-> e3]

\* second loop, one record processed to the end of the iteration
ExtractRow ==
  /\ pc = "extract"
  /\ Len(emails_col) < HeadLen
  /\ \E c \in CrawlOutcomes, x \in ExtractOutcomes :
       LET entry == LogEntry(df[Len(emails_col) + 1], c, x)
       IN /\ entry.kept # Raised
          /\ crawl_log' = Append(crawl_log, entry)
          /\ emails_col' = Append(emails_col, EmailCell(entry.kept))
  /\ UNCHANGED <<only_role, limit, rows, df, homepages, out, pc, search_log,
                 rank_in, rank_out>>

\* second loop, an exception leaves the iteration
ExtractRaises ==
  /\ pc = "extract"
  /\ Len(emails_col) < HeadLen
  /\ \E c \in CrawlOutcomes, x \in ExtractOutcomes :
       LET entry == LogEntry(df[Len(emails_col) + 1], c, x)
       IN /\ entry.kept = Raised
          /\ crawl_log' = Append(crawl_log, entry)
  /\ pc' = "crashed"
  /\ UNCHANGED <<only_role, limit, rows, df, homepages, emails_col, out,
                 search_log, rank_in, rank_out>>

\* df.loc[:len(emails_col)-1, "이메일"] = emails_col; out = df[[...]].copy()
Assemble ==
  /\ pc = "extract"
  /\ Len(emails_col) = HeadLen
  /\ df' = [k \in DOMAIN df |->
              IF k <= Len(emails_col) THEN [df[k] EXCEPT !.emails = emails_col[k]]
              ELSE df[k]]
  /\ out' = [k \in DOMAIN df |-> [emails |-> df'[k].emails,
                                  homepage |-> df'[k].homepage]]
  /\ pc' = "done"
  /\ UNCHANGED <<only_role, limit, rows, homepages, emails_col, search_log,
                 crawl_log, rank_in, rank_out>>

Next ==
  \/ KeepHomepage
  \/ SearchHomepage
  \/ SearchRaises
  \/ WriteHomepages
  \/ ExtractRow
  \/ ExtractRaises
  \/ Assemble

Spec == Init /\ [][Next]_vars

(* ------------------ role_priority as its own system -------------------- *)
InitRank ==
  /\ only_role = TRUE
  /\ limit = 1
  /\ rows = <<>>
  /\ df = <<>>
  /\ homepages = <<>>
  /\ emails_col = <<>>
  /\ out = <<>>
  /\ pc = "rank_call"
  /\ search_log = <<>>
  /\ crawl_log = <<>>
  /\ rank_in \in RankInputs
  /\ rank_out = NoneList

CallRank ==
  /\ pc = "rank_call"
  /\ rank_out' = role_priority(rank_in)
  /\ pc' = "rank_done"
  /\ UNCHANGED <<only_role, limit, rows, df, homepages, emails_col, out,
                 search_log, crawl_log, rank_in>>

NextRank == CallRank

SpecRank == InitRank /\ [][NextRank]_vars

(* ------------------------------- claims -------------------------------- *)
\* the email list stored for processed record k, before it is joined
StoredList(k) == DictFromKeys(crawl_log[k].kept)

\* role-prefixed according to the RoleSet of the ranker (six prefixes)
InRoleSet(e) == \E k \in DOMAIN roles : StartsWith(Lower(e), roles[k])

\* every role-prefixed address precedes every other address
RoleFirst(s) == \A j, k \in DOMAIN s : (j < k /\ InRoleSet(s[k])) => InRoleSet(s[j])

\* C1: the table returned by pipeline() has at most `limit` rows, whatever the
\* size of the listing source.
C1_RowCap == pc = "done" => Len(out) <= limit

\* C2: an exception raised for one record by the homepage search, the crawl or
\* the notes extraction never aborts the batch.
C2_NeverAborts == pc # "crashed"

\* C3: the emails written to each processed record are role_priority applied to
\* the record's filtered emails, so role-prefixed addresses come first.
C3_StoredRanked ==
  \A k \in DOMAIN emails_col :
    /\ emails_col[k] = Join(<<44, 32>>, role_priority(crawl_log[k].kept))
    /\ RoleFirst(StoredList(k))

\* C4: with the role-only toggle on, the kept emails are exactly the addresses
\* of the pre-filter list that start, ignoring case, with a RoleSet prefix
\* (info@, contact@, sales@, admin@, support@, help@).
C4_FilterUsesRoleSet ==
  only_role =>
    \A k \in DOMAIN emails_col :
      crawl_log[k].kept = SelectSeq(crawl_log[k].found, InRoleSet)

RankArgs == IF rank_in = NoneList THEN {} ELSE Range(rank_in)

\* C5 (as stated): role_priority orders role-prefixed addresses first and
\* breaks ties by the lower-cased address; empty input gives an empty sequence.
C5_LoweredTieBreak ==
  pc = "rank_done" =>
    /\ Range(rank_out) = RankArgs
    /\ RoleFirst(rank_out)
    /\ \A j, k \in DOMAIN rank_out :
         (j < k /\ InRoleSet(rank_out[j]) = InRoleSet(rank_out[k]))
           => ~StrLess(Lower(rank_out[k]), Lower(rank_out[j]))

\* C5 (amended): role_priority orders role-prefixed addresses first and breaks
\* ties by the code-point order of the address as written (upper case before
\* lower case); empty input gives an empty sequence.
C5_RawTieBreak ==
  pc = "rank_done" =>
    /\ Range(rank_out) = RankArgs
    /\ RoleFirst(rank_out)
    /\ \A j, k \in DOMAIN rank_out :
         (j < k /\ InRoleSet(rank_out[j]) = InRoleSet(rank_out[k]))
           => StrLess(rank_out[j], rank_out[k])

C5_Witness == pc = "rank_done" /\ rank_out = <<Info_b, info_a, jane_a>>

\* C6 (as stated): role_priority returns as many addresses as the input has
\* after case-insensitive de-duplication.
C6_CaseInsensitiveCount ==
  pc = "rank_done" => Len(rank_out) = Cardinality({Lower(e) : e \in RankArgs})

\* C6 (amended): role_priority returns as many addresses as the input has
\* after exact (case-sensitive) de-duplication; addresses that differ only in
\* letter case are all kept.
C6_ExactCount ==
  pc = "rank_done" => Len(rank_out) = Cardinality(RankArgs)

C6_Witness ==
  /\ pc = "rank_done"
  /\ Len(rank_in) = 3
  /\ rank_out = <<Info_b, info_b>>

\* the homepage record k carries when the listing source delivers it
Existing(k) == Strip(PyOr(rows[k].homepage, EmptyStr))

Unreachable(k) ==
  crawl_log[k].crawl_calls = 1 /\ crawl_log[k].crawl_ret \in {Raised, <<>>}

\* the iteration of record k ended in an exception
Aborted(k) == k > Len(emails_col)

\* C8 (as stated): a record whose homepage is unreachable is processed without
\* the crawl failure crashing it, and ends with empty emails.
C8_UnreachableEmpty ==
  \A k \in DOMAIN crawl_log :
    Unreachable(k) =>
      /\ ~(Aborted(k) /\ crawl_log[k].extract_calls = 0)
      /\ ~Aborted(k) => emails_col[k] = EmptyStr

\* C8 (amended): for a record whose homepage is unreachable the crawl failure
\* itself never crashes the processing and contributes no email; with empty
\* notes the record ends with empty emails, with non-empty notes the notes
\* fallback runs and only its answer can give the record emails.
C8_UnreachableFallsBack ==
  \A k \in DOMAIN crawl_log :
    Unreachable(k) =>
      /\ ~(Aborted(k) /\ crawl_log[k].extract_calls = 0)
      /\ df[k].notes = EmptyStr =>
           /\ ~Aborted(k)
           /\ emails_col[k] = EmptyStr
           /\ crawl_log[k].extract_calls = 0
      /\ df[k].notes # EmptyStr =>
           /\ crawl_log[k].extract_calls = 1
           /\ ~Aborted(k) =>
                Range(StoredList(k)) \subseteq Range(crawl_log[k].extract_ret)

C8_Witness ==
  /\ pc = "done"
  /\ \E k \in DOMAIN emails_col :
       /\ crawl_log[k].crawl_ret = Raised
       /\ df[k].notes = EmptyStr
       /\ out[k].emails = EmptyStr

\* the address starts, ignoring case, with one of the five filter prefixes
FilterMatches(e) ==
  \E p \in {<<105,110,102,111,64>>, <<99,111,110,116,97,99,116,64>>,
            <<115,97,108,101,115,64>>, <<97,100,109,105,110,64>>,
            <<115,117,112,112,111,114,116,64>>} : StartsWith(Lower(e), p)

\* C9: with the role-only toggle on, when the filter removes every address of
\* a non-empty email list the record ends with zero emails.
C9_StrictFilter ==
  only_role =>
    \A k \in DOMAIN emails_col :
      (/\ crawl_log[k].found # <<>>
       /\ \A e \in Range(crawl_log[k].found) : ~FilterMatches(e))
        => /\ emails_col[k] = EmptyStr
           /\ pc = "done" => out[k].emails = EmptyStr

C9_Witness ==
  /\ pc = "done"
  /\ only_role
  /\ \E k \in DOMAIN emails_col :
       /\ crawl_log[k].found = <<help_a, jane_a>>
       /\ out[k].emails = EmptyStr

\* C10: per record the crawler is invoked at most once, only for a non-empty
\* homepage and with page budget 5; the notes extraction runs only when the
\* crawl gave no email (or was skipped) and the notes are non-empty.
C10_CrawlThenFallback ==
  \A k \in DOMAIN crawl_log :
    /\ crawl_log[k].crawl_calls <= 1
    /\ crawl_log[k].crawl_calls = 1 =>
         df[k].homepage # EmptyStr /\ crawl_log[k].max_pages = 5
    /\ crawl_log[k].extract_calls <= 1
    /\ crawl_log[k].extract_calls = 1 =>
         /\ df[k].notes # EmptyStr
         /\ crawl_log[k].crawl_calls = 0 \/ crawl_log[k].crawl_ret \in {<<>>, Raised}

C10_Witness ==
  \E j, k \in DOMAIN emails_col :
    /\ crawl_log[j].crawl_calls = 1
    /\ crawl_log[j].crawl_ret = <<>>
    /\ crawl_log[j].extract_calls = 1
    /\ crawl_log[k].crawl_ret = <<jane_a, info_a>>
    /\ df[k].notes = NoteText
    /\ crawl_log[k].extract_calls = 0
====
